---- MODULE Spec2Model ----
(***************************************************************************)
(* Model of the Dgraph video-platform loader (src/src/model.py) and its    *)
(* interactive session (src/src/main.py).                                  *)
(*                                                                         *)
(* The graph engine is modelled by the committed graph it holds: a set of  *)
(* nodes, a set of directed edges, the uid lease and whether the schema    *)
(* (types and indexes) is declared.  Every client call that goes to the    *)
(* engine (query, mutate, commit, alter) may raise.                        *)
(***************************************************************************)
EXTENDS Integers, Sequences, FiniteSets, TLC

\* Bounds of the model.
MaxLoads == 2        \* create_data invocations in one session
MaxMissing == 2      \* required files that may be absent on disk
MaxFaults == 1       \* engine or I/O errors injected in one session

None == 0            \* Python's None where a uid is expected (uids start at 1)

----------------------------------------------------------------------------
\* The data files.  A text, a title and a username are sequences of words, so
\* that exact match (eq) and full-text match (anyoftext) differ.

NodeFiles == <<"comments", "playlists", "users", "videos">>

EdgeFiles == <<"comment_replies_comment", "comment_replies_video",
               "playlist_contains_video", "user_comments",
               "user_creates_playlist", "user_likes_comment",
               "user_likes_video", "user_posts_video", "user_saves_video">>

\* model.py:654-657, the list the pre-flight check walks, in its order.
required_files == NodeFiles \o EdgeFiles

Range(s) == {s[i] : i \in 1..Len(s)}

Datasets == {"clean", "dirty"}

HW == <<"hello", "world">>
HT == <<"hello", "there">>
GB == <<"goodbye">>

N(name, duration) == [name |-> name, duration |-> duration]
R(a, b) == [src |-> a, dst |-> b]

\* Rows of a node file (csv.DictReader over the file).
NodeRows(ds, file) ==
    CASE file = "comments"  -> <<N(HW, 0), N(HT, 0), N(GB, 0)>>
      [] file = "playlists" -> IF ds = "clean" THEN <<N(<<"pl">>, 0)>>
                               ELSE <<N(<<"pl">>, 0), N(<<"v1">>, 0)>>
      [] file = "users"     -> <<N(<<"ann">>, 0), N(<<"bob">>, 0)>>
      [] file = "videos"    -> IF ds = "clean"
                               THEN <<N(<<"v1">>, 5), N(<<"v2">>, 15)>>
                               ELSE <<N(<<"v1">>, 5), N(<<"v1">>, 25)>>

\* Rows of a relationship file: the two columns each loader reads.
EdgeRows(ds, file) ==
    IF ds = "clean" THEN
        CASE file = "comment_replies_comment" -> <<R(HT, HW)>>
          [] file = "comment_replies_video"   -> <<R(GB, <<"v1">>)>>
          [] file = "playlist_contains_video" -> <<R(<<"pl">>, <<"v1">>), R(<<"pl">>, <<"v2">>)>>
          [] file = "user_comments"           -> <<R(<<"ann">>, GB)>>
          [] file = "user_creates_playlist"   -> <<R(<<"ann">>, <<"pl">>)>>
          [] file = "user_likes_comment"      -> <<R(<<"bob">>, <<"world">>)>>
          [] file = "user_likes_video"        -> <<R(<<"bob">>, <<"v1">>)>>
          [] file = "user_posts_video"        -> <<R(<<"ann">>, <<"v1">>), R(<<"bob">>, <<"v2">>)>>
          [] file = "user_saves_video"        -> <<R(<<"bob">>, <<"v1">>)>>
    ELSE
        CASE file = "comment_replies_comment" -> <<R(<<"hello">>, GB), R(GB, GB), R(HW, HT), R(HT, HW)>>
          [] file = "comment_replies_video"   -> <<R(<<"hello">>, <<"v1">>), R(GB, <<"nope">>)>>
          [] file = "playlist_contains_video" -> <<R(<<"nope">>, <<"v1">>), R(<<"pl">>, <<"v1">>),
                                                   R(<<"pl">>, <<"v1">>)>>
          [] file = "user_comments"           -> <<R(<<"zed">>, GB), R(<<"ann">>, <<"zzz">>)>>
          [] file = "user_creates_playlist"   -> <<>>
          [] file = "user_likes_comment"      -> <<R(<<"bob">>, <<"there", "goodbye">>)>>
          [] file = "user_likes_video"        -> <<R(<<"bob">>, <<"nope">>)>>
          [] file = "user_posts_video"        -> <<R(<<"zed">>, <<"v1">>), R(<<"ann">>, <<"v1">>)>>
          [] file = "user_saves_video"        -> <<R(<<"bob">>, <<"nope">>), R(<<"zed">>, <<"nope">>)>>

\* What the session's user may type at the prompts.
\* A typed text may hold a double quote or a backslash, each a character of
\* its own between the words.
Quote == "\""
Backslash == "\\"

SearchTexts == {<<"hello">>, <<"zzz">>, <<"hello", Quote, "zzz">>, <<Backslash, Quote>>}
TitleInputs == {<<"v1">>, <<"nope">>, <<"v1", Quote>>}
DurationInputs == {10}

----------------------------------------------------------------------------
VARIABLES
    pc,          \* "start", "menu", "load" (inside create_data), "pause", "done"
    step,        \* create_data: index into load_steps of the running step
    row,         \* relationship loader: index of the next row of its file
    missing,     \* the required files absent on disk
    data,        \* which dataset the files hold
    nodes,       \* engine: committed nodes [uid, type, name, duration]
    edges,       \* engine: committed edges [pred, from, to]
    nextUid,     \* engine: next uid the lease hands out
    schema,      \* engine: "declared" iff types and indexes are declared; if
                 \* not, "dropped" iff a drop_all removed them
    loads,       \* create_data invocations so far
    started,     \* load steps started by the running / last create_data
    finished,    \* load steps that returned normally in that run
    report,      \* what the last operation printed as its error, if any
    ret,         \* what the last operation returned
    writes,      \* write transactions opened by the running / last operation
    unreleased,  \* transactions it opened and neither committed nor discarded
    lastRow,     \* the relationship row processed by the last step, if any
    faults,      \* engine or I/O errors injected so far
    op,          \* the operation chosen at the menu, until its result is dismissed
    sent,        \* the string literal of the query text it sent, if it built one
    resp,        \* what the last node loader of the running / last load returned
    copies       \* per node file: its loads committed since the graph was last empty
                 \* by construction or by drop_all

vars == <<pc, step, row, missing, data, nodes, edges, nextUid, schema, loads,
          started, finished, report, ret, writes, unreleased, lastRow, faults, op,
          sent, resp, copies>>

NoReport == [kind |-> "none", files |-> <<>>, step |-> "none"]
NoRow == [file |-> "none"]
NoRet == [kind |-> "none"]
NoLiteral == <<>>
NoResp == [kind |-> "none"]
NoCopies == [f \in Range(NodeFiles) |-> 0]

----------------------------------------------------------------------------
\* The engine, as the client sees it.

TypeOf(file) ==
    CASE file = "comments"  -> "Comment"
      [] file = "playlists" -> "Playlist"
      [] file = "users"     -> "User"
      [] file = "videos"    -> "Video"

\* The predicate that holds a node's name: `title` is shared by Playlist and
\* Video, and no lookup filters by type.
AttrOf(type) ==
    CASE type = "Comment"  -> "text"
      [] type = "User"     -> "username"
      [] type = "Playlist" -> "title"
      [] type = "Video"    -> "title"

\* The terms of the fulltext index: punctuation is not a term.
Tokens(text) == Range(text) \ {Quote, Backslash}

\* eq(attr, key) and anyoftext(attr, key) on one stored value.
Matches(func, value, key) ==
    IF func = "eq" THEN value = key
    ELSE Tokens(value) \cap Tokens(key) # {}

RECURSIVE SortUids(_)
SortUids(S) ==
    IF S = {} THEN <<>>
    ELSE LET m == CHOOSE x \in S : \A y \in S : x <= y
         IN <<m>> \o SortUids(S \ {m})

\* The uids a root function returns, in the engine's order (ascending uid).
Find(func, attr, key) ==
    SortUids({n.uid : n \in {m \in nodes : AttrOf(m.type) = attr
                                           /\ Matches(func, m.name, key)}})

\* With the schema dropped, a mutation re-creates its predicates without an
\* index, and eq / anyoftext / gt on such a predicate is an engine error.
Unindexed(attr) ==
    /\ schema # "declared"
    /\ \E n \in nodes : \/ AttrOf(n.type) = attr
                        \/ attr = "duration" /\ n.type = "Video"

\* A call the environment may fail: `failed` says whether it does.
Fault(failed) ==
    IF failed THEN faults < MaxFaults /\ faults' = faults + 1
    ELSE faults' = faults

E(pred, from, to) == [pred |-> pred, from |-> from, to |-> to]

\* model.py:20-28
last_uid_from_query(items) == IF items = <<>> THEN None ELSE items[Len(items)]

first_uid_from_query(items) == IF items = <<>> THEN None ELSE items[1]

\* str.replace('"', '\\"'): a backslash is put before every double quote and
\* nothing else is changed.
RECURSIVE escape(_)
escape(str) ==
    IF str = <<>> THEN <<>>
    ELSE (IF Head(str) = Quote THEN <<Backslash, Quote>> ELSE <<Head(str)>>)
         \o escape(Tail(str))

\* The f-string's "{...}": the interpolated text between two double quotes.
Literal(body) == <<Quote>> \o body \o <<Quote>>

\* The engine's lexer on a string literal, from position i: a backslash takes
\* the next character with it, the first double quote outside such a pair ends
\* the literal.  0: the literal never ends.
RECURSIVE LexEnd(_, _)
LexEnd(text, i) ==
    IF i > Len(text) THEN 0
    ELSE IF text[i] = Backslash THEN LexEnd(text, i + 2)
    ELSE IF text[i] = Quote THEN i
    ELSE LexEnd(text, i + 1)

\* The query parses as its template does iff the literal ends at the quote
\* the template closes it with.
Parses(lit) == lit = NoLiteral \/ LexEnd(lit, 2) = Len(lit)

RECURSIVE Unescape(_)
Unescape(body) ==
    IF body = <<>> THEN <<>>
    ELSE IF Head(body) = Backslash /\ Len(body) >= 2
    THEN <<body[2]>> \o Unescape(SubSeq(body, 3, Len(body)))
    ELSE <<Head(body)>> \o Unescape(Tail(body))

\* The value the engine reads from a literal that parses.
Key(lit) == Unescape(SubSeq(lit, 2, Len(lit) - 1))

----------------------------------------------------------------------------
\* create_data, model.py:620-679

\* The body of the try block after the pre-flight check, model.py:664-676.
load_steps_reordered ==
    <<"comment_replies_comment", "comments", "playlists", "users", "videos",
      "comment_replies_video", "playlist_contains_video", "user_comments",
      "user_creates_playlist", "user_likes_comment", "user_likes_video",
      "user_posts_video", "user_saves_video">>

load_steps ==
    <<"comments", "playlists", "users", "videos",
      "comment_replies_comment", "comment_replies_video",
      "playlist_contains_video", "user_comments", "user_creates_playlist",
      "user_likes_comment", "user_likes_video", "user_posts_video",
      "user_saves_video">>

\* model.py:659
missing_first_only(req) ==
    LET all == SelectSeq(req, LAMBDA f : f \in missing)
    IN IF all = <<>> THEN <<>> ELSE <<all[1]>>

missing_files(req) == SelectSeq(req, LAMBDA f : f \in missing)

Ctl(p, s, r, g) ==
    [pc |-> p, step |-> s, row |-> r, nodes |-> g.nodes, edges |-> g.edges]

Graph == [nodes |-> nodes, edges |-> edges]

\* A step returned: the next statement of the try block, or its end.
AfterStep(s, g) ==
    IF s = Len(load_steps) THEN Ctl("pause", 0, 1, g)
    ELSE Ctl("load", s + 1, 1, g)

\* model.py:677-679: the one handler of create_data prints and returns; main
\* then waits at its "Press Enter to continue" prompt.
OnExceptionContinue(s, g) == AfterStep(s, g)

OnExceptionRollback(s, g) == Ctl("pause", 0, 1, [nodes |-> {}, edges |-> {}])

OnException(s, g) == Ctl("pause", 0, 1, g)

\* Moves control to c, recording after `base` the step that starts (if one
\* does).
Goto(c, base) ==
    /\ pc' = c.pc
    /\ step' = c.step
    /\ row' = c.row
    /\ nodes' = c.nodes
    /\ edges' = c.edges
    /\ started' = IF c.pc = "load" /\ (pc # "load" \/ c.step # step)
                  THEN Append(base, load_steps[c.step])
                  ELSE base

Error(file) == [kind |-> "error", files |-> <<>>, step |-> file]

create_data ==
    /\ pc = "menu"
    /\ loads < MaxLoads
    /\ loads' = loads + 1
    /\ LET miss == missing_files(required_files)
       IN IF miss # <<>>
          THEN /\ report' = [kind |-> "missing", files |-> miss, step |-> "none"]
               /\ Goto(OnException(0, Graph), <<>>)
          ELSE /\ report' = NoReport
               /\ Goto(Ctl("load", 1, 1, Graph), <<>>)
    /\ finished' = <<>>
    /\ ret' = NoRet
    /\ writes' = 0
    /\ unreleased' = 0
    /\ lastRow' = NoRow
    /\ op' = "create_data"
    /\ sent' = NoLiteral
    /\ resp' = NoResp
    /\ UNCHANGED <<missing, data, nextUid, schema, faults, copies>>

----------------------------------------------------------------------------
\* Node loaders, model.py:120-234

NodeFailPoints == {"none", "read", "mutate", "commit"}

BlankPrefix(file) ==
    CASE file = "comments"  -> "_:c"
      [] file = "playlists" -> "_:p"
      [] file = "users"     -> "_:u"
      [] file = "videos"    -> "_:v"

\* 'uid': '_:c' + str(i), with i counting the rows from 1.
BlankIdSame(file, i) == <<BlankPrefix(file), 1>>

BlankId(file, i) == <<BlankPrefix(file), i>>

\* The batch a loader builds: one record per row, in the order of the rows.
Batch(file, rows) ==
    [i \in 1..Len(rows) |->
        [uid |-> BlankId(file, i), type |-> TypeOf(file), name |-> rows[i].name,
         duration |-> rows[i].duration]]

\* The engine gives one new uid to every distinct blank node of a mutation
\* (here in the order of first appearance, from uid0): this map is resp.uids.
Assigned(batch, uid0) ==
    LET ids == {batch[i].uid : i \in DOMAIN batch}
        first(b) == CHOOSE i \in DOMAIN batch :
                       /\ batch[i].uid = b
                       /\ \A j \in DOMAIN batch : batch[j].uid = b => i <= j
    IN [b \in ids |-> uid0 + Cardinality({c \in ids : first(c) < first(b)})]

\* The nodes the mutation stages: records that name the same blank node are
\* one node, and the last value set for a predicate is the one it holds.
Staged(batch, uids) ==
    {LET last == CHOOSE i \in DOMAIN batch :
                    /\ batch[i].uid = b
                    /\ \A j \in DOMAIN batch : batch[j].uid = b => j <= i
     IN [uid |-> uids[b], type |-> batch[last].type, name |-> batch[last].name,
         duration |-> batch[last].duration] : b \in DOMAIN uids}

\* What one transaction leaves in the committed graph: mutate stages the
\* batch, commit publishes it, discard (finally) drops what is not committed.
CommittedAtMutate(pending, fail) ==
    IF fail \in {"none", "commit"} THEN pending ELSE {}

CommittedIfNew(pending, fail) ==
    IF fail = "none"
    THEN {p \in pending : ~\E n \in nodes : /\ n.type = p.type
                                             /\ n.name = p.name
                                             /\ n.duration = p.duration}
    ELSE {}

Committed(pending, fail) == IF fail = "none" THEN pending ELSE {}

\* One node loader run; nextUid counts the uids of committed nodes.
NodeLoad(file, fail) ==
    LET rows == NodeRows(data, file)
        uids == Assigned(Batch(file, rows), nextUid)
        pending == Staged(Batch(file, rows), uids)
    IN [raised  |-> fail # "none",
        nodes   |-> Committed(pending, fail),
        nextUid |-> IF fail = "none" THEN nextUid + Cardinality(DOMAIN uids)
                    ELSE nextUid,
        ret     |-> IF fail = "none"
                    THEN [kind |-> "uids", file |-> file, uids |-> uids]
                    ELSE NoResp,
        opened  |-> 1,
        released |-> 1]

NodeStep(file) ==
    /\ pc = "load"
    /\ load_steps[step] = file
    /\ \E fail \in NodeFailPoints :
         LET res == NodeLoad(file, fail)
             g == [nodes |-> nodes \cup res.nodes, edges |-> edges]
         IN /\ Fault(fail # "none")
            /\ nextUid' = res.nextUid
            /\ resp' = res.ret
            /\ copies' = IF res.raised THEN copies
                          ELSE [copies EXCEPT ![file] = @ + 1]
            /\ writes' = writes + res.opened
            /\ unreleased' = unreleased + res.opened - res.released
            /\ IF res.raised
               THEN /\ Goto(OnException(step, g), started)
                    /\ report' = Error(file)
                    /\ finished' = finished
               ELSE /\ Goto(AfterStep(step, g), started)
                    /\ report' = report
                    /\ finished' = Append(finished, file)
    /\ lastRow' = NoRow
    /\ UNCHANGED <<missing, data, schema, loads, ret, op, sent>>

load_comments == NodeStep("comments")

load_playlists == NodeStep("playlists")

load_users == NodeStep("users")

load_videos == NodeStep("videos")

----------------------------------------------------------------------------
\* Relationship loaders, model.py:245-610

\* What differs between the nine loaders: the root function and predicate of
\* each endpoint lookup, the predicate written, the node the mutation names as
\* its "uid" (the holder of the edge), and whether both lookups are issued
\* before the first result is checked.
Loader(file) ==
    CASE file = "comment_replies_comment" ->
           [srcFunc |-> "eq", srcAttr |-> "text", dstFunc |-> "eq", dstAttr |-> "text",
            pred |-> "replies_to_c_c", holder |-> "dst", eager |-> FALSE]
      [] file = "comment_replies_video" ->
           [srcFunc |-> "anyoftext", srcAttr |-> "text", dstFunc |-> "eq", dstAttr |-> "title",
            pred |-> "replies_to_c_v", holder |-> "src", eager |-> FALSE]
      [] file = "playlist_contains_video" ->
           [srcFunc |-> "eq", srcAttr |-> "title", dstFunc |-> "eq", dstAttr |-> "title",
            pred |-> "contains", holder |-> "src", eager |-> FALSE]
      [] file = "user_comments" ->
           [srcFunc |-> "eq", srcAttr |-> "username", dstFunc |-> "anyoftext", dstAttr |-> "text",
            pred |-> "comments", holder |-> "src", eager |-> FALSE]
      [] file = "user_creates_playlist" ->
           [srcFunc |-> "eq", srcAttr |-> "username", dstFunc |-> "eq", dstAttr |-> "title",
            pred |-> "creates", holder |-> "src", eager |-> FALSE]
      [] file = "user_likes_comment" ->
           [srcFunc |-> "eq", srcAttr |-> "username", dstFunc |-> "anyoftext", dstAttr |-> "text",
            pred |-> "likes_u_c", holder |-> "src", eager |-> FALSE]
      [] file = "user_likes_video" ->
           [srcFunc |-> "eq", srcAttr |-> "username", dstFunc |-> "eq", dstAttr |-> "title",
            pred |-> "likes_u_v", holder |-> "src", eager |-> FALSE]
      [] file = "user_posts_video" ->
           [srcFunc |-> "eq", srcAttr |-> "username", dstFunc |-> "eq", dstAttr |-> "title",
            pred |-> "posts", holder |-> "src", eager |-> TRUE]
      [] file = "user_saves_video" ->
           [srcFunc |-> "eq", srcAttr |-> "username", dstFunc |-> "eq", dstAttr |-> "title",
            pred |-> "saves", holder |-> "src", eager |-> TRUE]

RowFailPoints == {"none", "read", "query_src", "query_dst", "mutate", "commit"}

\* `if uid is None: print(...); continue`
IsMissNever(uid) == FALSE

IsMiss(uid) == uid = None

\* The mutation of a row: {"uid": holder, pred: [{"uid": value}]}.
MutationSelf(L, uid_s, uid_d) == E(L.pred, uid_s, uid_s)

Mutation(L, uid_s, uid_d) ==
    IF L.holder = "src" THEN E(L.pred, uid_s, uid_d) ELSE E(L.pred, uid_d, uid_s)

\* The outcome of one row.  trips: the round-trips issued, in order; srcN and
\* dstN: the number of matches each lookup returned (-1: it did not return);
\* lookups: read-only transactions opened (none is ever discarded); writes:
\* write transactions opened (each discarded in its finally).
Res(outcome, trips, srcN, dstN, added) ==
    [outcome |-> outcome, trips |-> trips, srcN |-> srcN, dstN |-> dstN,
     edges |-> added,
     lookups |-> Len(SelectSeq(trips, LAMBDA t : t = "lookup")),
     writes |-> Len(SelectSeq(trips, LAMBDA t : t = "write"))]

\* The write transaction of a row: mutate, commit, finally discard.
RowWriteEarly(L, uid_s, uid_d, sN, dN, fail) ==
    IF fail \in {"mutate", "commit"}
    THEN Res("raised", <<"lookup", "write", "lookup">>, sN, dN, {})
    ELSE Res("linked", <<"lookup", "write", "lookup">>, sN, dN,
             {E(L.pred, uid_s, uid_d)})

RowWrite(L, uid_s, uid_d, sN, dN, fail) ==
    IF fail \in {"mutate", "commit"}
    THEN Res("raised", <<"lookup", "lookup", "write">>, sN, dN, {})
    ELSE Res("linked", <<"lookup", "lookup", "write">>, sN, dN,
             {Mutation(L, uid_s, uid_d)})

RelRow(L, r, fail) ==
    LET srcItems == Find(L.srcFunc, L.srcAttr, r.src)
        dstItems == Find(L.dstFunc, L.dstAttr, r.dst)
        srcRaises == fail = "query_src" \/ Unindexed(L.srcAttr)
        dstRaises == fail = "query_dst" \/ Unindexed(L.dstAttr)
        uid_s == first_uid_from_query(srcItems)
        uid_d == first_uid_from_query(dstItems)
        sN == Len(srcItems)
        dN == Len(dstItems)
    IN IF fail = "read" THEN Res("raised", <<>>, -1, -1, {})
       ELSE IF srcRaises THEN Res("raised", <<"lookup">>, -1, -1, {})
       ELSE IF L.eager THEN
            \* both queries are sent, then the results are checked in turn
            IF dstRaises THEN Res("raised", <<"lookup", "lookup">>, sN, -1, {})
            ELSE IF IsMiss(uid_s) THEN Res("skipped", <<"lookup", "lookup">>, sN, dN, {})
            ELSE IF IsMiss(uid_d) THEN Res("skipped", <<"lookup", "lookup">>, sN, dN, {})
            ELSE RowWrite(L, uid_s, uid_d, sN, dN, fail)
       ELSE IF IsMiss(uid_s) THEN Res("skipped", <<"lookup">>, sN, -1, {})
       ELSE IF dstRaises THEN Res("raised", <<"lookup", "lookup">>, sN, -1, {})
       ELSE IF IsMiss(uid_d) THEN Res("skipped", <<"lookup", "lookup">>, sN, dN, {})
       ELSE RowWrite(L, uid_s, uid_d, sN, dN, fail)

\* Where control goes after a row: the loaders have no except clause, so a
\* raised row leaves the loop and the loader, up to create_data's handler.
AfterRowSwallow(outcome, s, r, g) == Ctl("load", s, r + 1, g)

AfterRow(outcome, s, r, g) ==
    IF outcome = "raised" THEN OnException(s, g) ELSE Ctl("load", s, r + 1, g)

RelStep(file) ==
    /\ pc = "load"
    /\ load_steps[step] = file
    /\ IF row > Len(EdgeRows(data, file))
       THEN \* the reader is exhausted: the loader returns
            /\ Goto(AfterStep(step, Graph), started)
            /\ finished' = Append(finished, file)
            /\ lastRow' = NoRow
            /\ UNCHANGED <<report, writes, unreleased, faults>>
       ELSE \E fail \in RowFailPoints :
              LET r == EdgeRows(data, file)[row]
                  res == RelRow(Loader(file), r, fail)
                  g == [nodes |-> nodes, edges |-> edges \cup res.edges]
              IN /\ Fault(fail # "none")
                 /\ Goto(AfterRow(res.outcome, step, row, g), started)
                 /\ report' = IF res.outcome = "raised" THEN Error(file) ELSE report
                 /\ writes' = writes + res.writes
                 /\ unreleased' = unreleased + res.lookups
                 /\ lastRow' = [file |-> file, row |-> row, key |-> r,
                                outcome |-> res.outcome, trips |-> res.trips,
                                srcN |-> res.srcN, dstN |-> res.dstN]
                 /\ finished' = finished
    /\ UNCHANGED <<missing, data, nextUid, schema, loads, ret, op, sent, resp,
                   copies>>

load_comment_replies_comment == RelStep("comment_replies_comment")

load_comment_replies_video == RelStep("comment_replies_video")

load_playlist_contains_video == RelStep("playlist_contains_video")

load_user_comments == RelStep("user_comments")

load_user_creates_playlist == RelStep("user_creates_playlist")

load_user_likes_comment == RelStep("user_likes_comment")

load_user_likes_video == RelStep("user_likes_video")

load_user_posts_video == RelStep("user_posts_video")

load_user_saves_video == RelStep("user_saves_video")

----------------------------------------------------------------------------
\* Queries, model.py:687-798.  Each opens one read-only transaction and
\* discards it in its finally; an engine error propagates to main's handler.

MainError == [kind |-> "main_error", files |-> <<>>, step |-> "none"]
Raised == [kind |-> "raised"]
Rows(r) == [kind |-> "rows", rows |-> r]
IntRet(n) == [kind |-> "int", n |-> n]

\* Lexicographic rank of the titles in use (orderasc: title).
TitleRank(name) ==
    CASE name = <<"nope">> -> 1
      [] name = <<"pl">>   -> 2
      [] name = <<"v1">>   -> 3
      [] name = <<"v2">>   -> 4
      [] OTHER             -> 5

RECURSIVE SortBy(_, _)
\* The uids of the nodes S ordered by key, ties in uid order.
SortBy(S, key) ==
    IF S = {} THEN <<>>
    ELSE LET m == CHOOSE x \in S : \A y \in S :
                     \/ key[x] < key[y]
                     \/ key[x] = key[y] /\ x.uid <= y.uid
         IN <<m.uid>> \o SortBy(S \ {m}, key)

Videos == {n \in nodes : n.type = "Video"}

\* An operation of the menu begins: what the last one left is forgotten.
Begin ==
    /\ pc = "menu"
    /\ started' = <<>>
    /\ finished' = <<>>
    /\ lastRow' = NoRow

\* A read-only operation whose query holds the literal `lit`, needs `attr`
\* indexed and yields `result`.
Query(name, attr, result, lit) ==
    /\ Begin
    /\ op' = name
    /\ sent' = lit
    /\ \E fail \in BOOLEAN :
         LET raises == fail \/ ~Parses(lit) \/ (attr # "none" /\ Unindexed(attr))
         IN /\ Fault(fail)
            /\ ret' = IF raises THEN Raised ELSE result
            /\ report' = IF raises THEN MainError ELSE NoReport
    /\ pc' = "pause"
    /\ writes' = 0
    /\ unreleased' = 0
    /\ UNCHANGED <<step, row, missing, data, nodes, edges, nextUid, schema, loads,
                   resp, copies>>

query_by_text ==
    \E text_search \in SearchTexts :
        LET lit == Literal(escape(text_search))
        IN Query("query_by_text", "text", Rows(Find("anyoftext", "text", Key(lit))), lit)

query_by_numeric_duration ==
    \E min \in DurationInputs :
        Query("query_by_numeric_duration", "duration", Rows(SortUids({v.uid : v \in {n \in Videos : n.duration > min}})),
              NoLiteral)

query_users_with_posts ==
    Query("query_users_with_posts", "none",
          Rows({<<u.uid, {e.to : e \in {x \in edges : x.pred = "posts" /\ x.from = u.uid}}>> :
                   u \in {n \in nodes : n.type = "User"}}), NoLiteral)

query_video_posters_reverse ==
    \E video_title \in TitleInputs :
        LET lit == Literal(escape(video_title))
        IN Query("query_video_posters_reverse", "title",
                 Rows({<<v.uid, {e.from : e \in {x \in edges : x.pred = "posts" /\ x.to = v.uid}}>> :
                          v \in {n \in nodes : AttrOf(n.type) = "title" /\ n.name = Key(lit)}}),
                 lit)

query_videos_sorted ==
    \E desc \in BOOLEAN :
        Query("query_videos_sorted", "none", Rows(IF desc THEN SortBy(Videos, [n \in Videos |-> 0 - n.duration])
                           ELSE SortBy(Videos, [n \in Videos |-> n.duration])),
              NoLiteral)

query_video_count ==
    Query("query_video_count", "none", IntRet(Cardinality(Videos)), NoLiteral)

\* main.py:144-153: the two prompts of the paged query.
PageInputs == {"1", " 2", "x"}

\* int(str): surrounding white space is accepted, a letter is a ValueError.
IsInt(str) == str \in {"1", " 2"}

ParseInt(str) == CASE str = "1" -> 1 [] str = " 2" -> 2

\* main.py:146-152: one try block holds both conversions and its handler
\* assigns both defaults.
PageArgsEach(first, offset) ==
    [first |-> IF IsInt(first) THEN ParseInt(first) ELSE 2,
     offset |-> IF IsInt(offset) THEN ParseInt(offset) ELSE 0]

PageArgs(first, offset) ==
    IF IsInt(first) /\ IsInt(offset)
    THEN [first |-> ParseInt(first), offset |-> ParseInt(offset)]
    ELSE [first |-> 2, offset |-> 0]

Page(first, offset) ==
    LET all == SortBy(Videos, [n \in Videos |-> TitleRank(n.name)])
        to == IF offset + first < Len(all) THEN offset + first ELSE Len(all)
    IN SubSeq(all, offset + 1, to)

query_videos_paged ==
    \E first \in PageInputs, offset \in PageInputs :
        LET a == PageArgs(first, offset)
        IN Query("query_videos_paged", "none",
                 [kind |-> "page", typed |-> <<first, offset>>,
                  first |-> a.first, offset |-> a.offset,
                  rows |-> Page(a.first, a.offset)], NoLiteral)

----------------------------------------------------------------------------
\* delete_comment, model.py:809-833

DeleteFailPoints == {"none", "query", "mutate", "commit"}

\* What the function returns once the delete has committed: it falls off the
\* end of the function body.
DeleteReturn(uids) == NoRet

\* model.py:810: the term goes into the query text as it was typed.
DeleteLiteral(comment_text) == Literal(comment_text)

DeleteComment(comment_text, fail) ==
    LET lit == DeleteLiteral(comment_text)
        uids == Find("anyoftext", "text", Key(lit))
    IN IF fail = "query" \/ ~Parses(lit) \/ Unindexed("text")
       THEN [raised |-> TRUE, deleted |-> {}, ret |-> Raised, writes |-> 0]
       ELSE IF uids = <<>>
       THEN [raised |-> FALSE, deleted |-> {}, ret |-> IntRet(0), writes |-> 0]
       ELSE IF fail \in {"mutate", "commit"}
       THEN [raised |-> TRUE, deleted |-> {}, ret |-> Raised, writes |-> 1]
       ELSE [raised |-> FALSE, deleted |-> Range(uids), ret |-> DeleteReturn(uids),
             writes |-> 1]

delete_comment ==
    /\ Begin
    /\ op' = "delete_comment"
    /\ \E t \in SearchTexts, fail \in DeleteFailPoints :
         LET res == DeleteComment(t, fail)
         IN /\ Fault(fail # "none")
            /\ nodes' = {n \in nodes : n.uid \notin res.deleted}
            \* {"uid": u} in del_obj removes the node's own predicates; edges
            \* that other nodes hold to it stay
            /\ edges' = {e \in edges : e.from \notin res.deleted}
            /\ ret' = res.ret
            /\ report' = IF res.raised THEN MainError ELSE NoReport
            /\ writes' = res.writes
            /\ sent' = DeleteLiteral(t)
    /\ pc' = "pause"
    /\ unreleased' = 0
    /\ UNCHANGED <<step, row, missing, data, nextUid, schema, loads, resp, copies>>

----------------------------------------------------------------------------
\* The session, main.py:61-185

\* main.py:67-73: the schema is declared once, when the session starts.
set_schema ==
    /\ pc = "start"
    /\ pc' = "menu"
    /\ \E ok \in BOOLEAN :
         /\ schema' = (IF ok THEN "declared" ELSE schema)
         /\ Fault(~ok)
    /\ UNCHANGED <<step, row, missing, data, nodes, edges, nextUid, loads, started,
                   finished, report, ret, writes, unreleased, lastRow, op, sent,
                   resp, copies>>

\* main.py:180 and 185: "Press Enter to continue", then the menu again.  What
\* the operation printed and returned is gone from the screen.
press_enter ==
    /\ pc = "pause"
    /\ pc' = "menu"
    /\ started' = <<>>
    /\ finished' = <<>>
    /\ report' = NoReport
    /\ ret' = NoRet
    /\ writes' = 0
    /\ unreleased' = 0
    /\ lastRow' = NoRow
    /\ op' = "none"
    /\ sent' = NoLiteral
    /\ resp' = NoResp
    /\ UNCHANGED <<step, row, missing, data, nodes, edges, nextUid, schema, loads, faults,
                   copies>>

\* model.py:844-845, menu option 10.
drop_all ==
    /\ Begin
    /\ op' = "drop_all"
    /\ \E ok \in BOOLEAN :
         /\ Fault(~ok)
         /\ nodes' = IF ok THEN {} ELSE nodes
         /\ edges' = IF ok THEN {} ELSE edges
         /\ schema' = IF ok THEN "dropped" ELSE schema
         /\ copies' = IF ok THEN NoCopies ELSE copies
         /\ report' = IF ok THEN NoReport ELSE MainError
         /\ ret' = IF ok THEN NoRet ELSE Raised
    /\ pc' = "pause"
    /\ writes' = 0
    /\ unreleased' = 0
    /\ sent' = NoLiteral
    /\ UNCHANGED <<step, row, missing, data, nextUid, loads, resp>>

\* main.py:167-174, menu option 11: drop_all, close the stub, exit(0).  An
\* exception of drop_all is caught by the loop's handler (main.py:182-185).
exit_session ==
    /\ Begin
    /\ op' = "exit"
    /\ \E ok \in BOOLEAN :
         /\ Fault(~ok)
         /\ nodes' = IF ok THEN {} ELSE nodes
         /\ edges' = IF ok THEN {} ELSE edges
         /\ schema' = IF ok THEN "dropped" ELSE schema
         /\ copies' = IF ok THEN NoCopies ELSE copies
         /\ report' = IF ok THEN NoReport ELSE MainError
         /\ ret' = IF ok THEN NoRet ELSE Raised
         /\ pc' = IF ok THEN "done" ELSE "pause"
    /\ writes' = 0
    /\ unreleased' = 0
    /\ sent' = NoLiteral
    /\ UNCHANGED <<step, row, missing, data, nextUid, loads, resp>>

----------------------------------------------------------------------------
Init ==
    /\ pc = "start"
    /\ step = 0
    /\ row = 1
    /\ missing \in {S \in SUBSET Range(required_files) : Cardinality(S) <= MaxMissing}
    /\ data \in Datasets
    /\ nodes = {}
    /\ edges = {}
    /\ nextUid = 1
    /\ schema = "undeclared"
    /\ loads = 0
    /\ started = <<>>
    /\ finished = <<>>
    /\ report = NoReport
    /\ ret = NoRet
    /\ writes = 0
    /\ unreleased = 0
    /\ lastRow = NoRow
    /\ faults = 0
    /\ op = "none"
    /\ sent = NoLiteral
    /\ resp = NoResp
    /\ copies = NoCopies

Next ==
    \/ set_schema
    \/ create_data
    \/ load_comments
    \/ load_playlists
    \/ load_users
    \/ load_videos
    \/ load_comment_replies_comment
    \/ load_comment_replies_video
    \/ load_playlist_contains_video
    \/ load_user_comments
    \/ load_user_creates_playlist
    \/ load_user_likes_comment
    \/ load_user_likes_video
    \/ load_user_posts_video
    \/ load_user_saves_video
    \/ query_by_text
    \/ query_by_numeric_duration
    \/ query_users_with_posts
    \/ query_video_posters_reverse
    \/ query_videos_sorted
    \/ query_video_count
    \/ query_videos_paged
    \/ delete_comment
    \/ drop_all
    \/ exit_session
    \/ press_enter

Spec == Init /\ [][Next]_vars

----------------------------------------------------------------------------
\* Properties

Last(seq) == seq[Len(seq)]

Prefix(seq, n) == SubSeq(seq, 1, n)

\* C1: when create_data is invoked with at least one required file missing,
\* it reports one missing-files error listing every missing path, starts no
\* load step, opens no write transaction and leaves the graph as it was; and
\* no load step ever runs while a required file is missing.
C1_PreflightAborts ==
    /\ [](pc = "load" => missing = {})
    /\ [][(pc = "menu" /\ op' = "create_data" /\ missing # {}) =>
            /\ report'.kind = "missing"
            /\ Range(report'.files) = missing
            /\ Len(report'.files) = Cardinality(missing)
            /\ pc' = "pause"
            /\ started' = <<>>
            /\ writes' = 0
            /\ nodes' = nodes
            /\ edges' = edges
            /\ nextUid' = nextUid]_vars

C1_Witness ==
    /\ pc = "pause"
    /\ op = "create_data"
    /\ report.kind = "missing"
    /\ Len(report.files) = 2
    /\ started = <<>>

C6_NodesBeforeEdges ==
    /\ Len(started) <= Len(required_files)
    /\ started = Prefix(required_files, Len(started))
    /\ \A i \in 1..Len(started) :
          started[i] \in Range(EdgeFiles) =>
              \A f \in Range(NodeFiles) :
                  /\ f \in Range(finished)
                  /\ \E j \in 1..(i - 1) : started[j] = f

C6_Witness ==
    /\ pc = "load"
    /\ started # <<>>
    /\ Last(started) = "user_saves_video"
    /\ lastRow # NoRow
    /\ lastRow.outcome = "linked"

\* C9: while create_data runs, committed nodes and edges are never removed,
\* whatever a later step does (in particular when it raises).
C9_NoRollback ==
    [][pc = "load" => (nodes \subseteq nodes' /\ edges \subseteq edges')]_vars

C9_Witness ==
    /\ pc = "pause"
    /\ op = "create_data"
    /\ report.kind = "error"
    /\ report.step \in Range(EdgeFiles)
    /\ \E n \in nodes : n.type = "Comment"
    /\ edges # {}

\* A relationship row has just been processed (lastRow' describes it).
RowDone == lastRow'.file # "none" /\ lastRow' # lastRow

Lookups(lr) == Len(SelectSeq(lr.trips, LAMBDA t : t = "lookup"))

\* The lookups that returned a result.
Returned(lr) ==
    (IF lr.srcN >= 0 THEN 1 ELSE 0) + (IF lr.dstN >= 0 THEN 1 ELSE 0)

C4_RowFailureContinues ==
    (lastRow # NoRow /\ lastRow.outcome = "raised") =>
        /\ pc = "load"
        /\ load_steps[step] = lastRow.file
        /\ row = lastRow.row + 1

\* C4 as amended: a row that is skipped or linked is followed by the next row
\* of its file, but a row that raised ends the loop and the loader: the
\* exception reaches create_data's handler, the loader has not returned
\* normally and the remaining rows are not processed.
C4_RowFailureEndsLoader ==
    lastRow # NoRow =>
        IF lastRow.outcome = "raised"
        THEN /\ pc = "pause"
             /\ report = Error(lastRow.file)
             /\ Last(started) = lastRow.file
             /\ lastRow.file \notin Range(finished)
        ELSE /\ pc = "load"
             /\ load_steps[step] = lastRow.file
             /\ row = lastRow.row + 1

C4_Witness ==
    /\ lastRow # NoRow
    /\ lastRow.outcome = "raised"
    /\ "write" \in Range(lastRow.trips)
    /\ lastRow.row < Len(EdgeRows(data, lastRow.file))
    /\ pc = "pause"

\* C5: a node loader opens exactly one write transaction and is all-or-nothing:
\* either it raises and the committed graph gains no node, or it returns and
\* the graph gains exactly one node of its type per row of its file.
C5_NodeLoadAllOrNothing ==
    [][(pc = "load" /\ load_steps[step] \in Range(NodeFiles)) =>
          LET file == load_steps[step]
              rows == NodeRows(data, file)
              new == nodes' \ nodes
          IN /\ nodes \subseteq nodes'
             /\ edges' = edges
             /\ writes' = writes + 1
             /\ unreleased' = unreleased
             /\ \/ /\ pc' = "pause"
                   /\ report' = Error(file)
                   /\ finished' = finished
                   /\ new = {}
                \/ /\ finished' = Append(finished, file)
                   /\ report' = report
                   /\ Cardinality(new) = Len(rows)
                   /\ \A n \in new : n.type = TypeOf(file)
                   /\ \A i \in 1..Len(rows) :
                         \E n \in new : /\ n.name = rows[i].name
                                        /\ n.duration = rows[i].duration]_vars

C5_Witness ==
    /\ pc = "pause"
    /\ report = Error("videos")
    /\ finished = <<"comments", "playlists", "users">>
    /\ Videos = {}
    /\ \E n \in nodes : n.type = "User"

\* C7 as stated: once an operation has ended, no transaction it opened is
\* left neither committed nor discarded.
C7_AllTxnsReleased == pc \in {"pause", "done"} => unreleased = 0

\* The nodes an endpoint lookup of loader L matches for key k.
Matching(func, attr, k) ==
    {n.uid : n \in {m \in nodes : AttrOf(m.type) = attr /\ Matches(func, m.name, k)}}

\* The row's predicate links the two resolved nodes, in one direction or the
\* other.
Linked(E_, lr) ==
    LET L == Loader(lr.file)
        s == CHOOSE u \in Matching(L.srcFunc, L.srcAttr, lr.key.src) : TRUE
        d == CHOOSE u \in Matching(L.dstFunc, L.dstAttr, lr.key.dst) : TRUE
    IN {e \in E_ : e.pred = L.pred /\ {e.from, e.to} = {s, d}}

C10_DeleteReturnsCount ==
    [][(pc = "menu" /\ op' = "delete_comment" /\ ret' # Raised) =>
          \E t \in SearchTexts :
              LET hit == Matching("anyoftext", "text", t)
              IN /\ nodes' = {n \in nodes : n.uid \notin hit}
                 /\ ret' = IntRet(Cardinality(hit))
                 /\ writes' = (IF hit = {} THEN 0 ELSE 1)]_vars

\* The operations that put a typed string into their query text.
Interpolating == {"query_by_text", "query_video_posters_reverse", "delete_comment"}

\* C11 as stated: in the query text of every operation that interpolates a
\* typed string, the string literal is not ended by a character of the typed
\* string: the lexer does not find its closing quote before the quote the
\* template closes it with.
C11_LiteralNotEndedByInput ==
    (pc = "pause" /\ op \in Interpolating) =>
        LexEnd(sent, 2) \notin 2..(Len(sent) - 1)

\* C12: the paged query runs whatever is typed at its two prompts (it raises
\* only if the engine does); if either typed value is not an integer it is
\* issued with first = 2 and offset = 0, both replaced together, and if both
\* are integers it is issued with exactly those, and returns that page of the
\* videos in title order.
C12_PagedFallbackPair ==
    [][(pc = "menu" /\ op' = "query_videos_paged") =>
          /\ pc' = "pause"
          /\ (faults' = faults => ret'.kind = "page")
          /\ ret'.kind = "page" =>
                LET first == ret'.typed[1]
                    offset == ret'.typed[2]
                IN /\ first \in PageInputs /\ offset \in PageInputs
                   /\ IF IsInt(first) /\ IsInt(offset)
                      THEN ret'.first = ParseInt(first) /\ ret'.offset = ParseInt(offset)
                      ELSE ret'.first = 2 /\ ret'.offset = 0
                   /\ Len(ret'.rows) <= ret'.first
                   /\ \A i \in 1..Len(ret'.rows) :
                         \E v \in Videos : v.uid = ret'.rows[i]
                   /\ nodes' = nodes /\ edges' = edges]_vars

C12_Witness ==
    /\ pc = "pause"
    /\ op = "query_videos_paged"
    /\ ret.kind = "page"
    /\ ret.typed = <<"1", "x">>
    /\ ret.first = 2
    /\ ret.offset = 0
    /\ Len(ret.rows) = 2

\* C13 as stated: whenever the exit option is chosen at the menu, drop-all is
\* carried out (the graph and the schema are gone) and the process ends: the
\* session does not come back to the menu.
C13_ExitTerminates ==
    [][(pc = "menu" /\ op' = "exit") =>
          /\ pc' = "done"
          /\ nodes' = {}
          /\ edges' = {}
          /\ schema' = "dropped"]_vars

\* The loads and the queries of the menu (options 1 to 8).
LoadsAndQueries ==
    {"create_data", "query_by_text", "query_by_numeric_duration",
     "query_users_with_posts", "query_video_posters_reverse",
     "query_videos_sorted", "query_video_count", "query_videos_paged"}

\* C14 as stated: no load and no query runs while the most recent operation
\* on the schema is a drop-all, i.e. the schema is declared again before them.
C14_SchemaDeclaredAfterDrop ==
    (pc \in {"load", "pause"} /\ op \in LoadsAndQueries) => schema # "dropped"

\* C15: a node loader that returns has given the N rows of its file the N
\* pairwise distinct blank node ids prefix + 1 .. prefix + N, and returns a
\* map from exactly these ids to N pairwise distinct new uids, the uid of row
\* i being that of a new node which holds the values of row i.
C15_OneUidPerRow ==
    [][(pc = "load" /\ load_steps[step] \in Range(NodeFiles)
               /\ finished' # finished) =>
          LET file == load_steps[step]
              rows == NodeRows(data, file)
              ids == {<<BlankPrefix(file), i>> : i \in 1..Len(rows)}
              new == nodes' \ nodes
          IN /\ resp'.kind = "uids"
             /\ resp'.file = file
             /\ Cardinality(ids) = Len(rows)
             /\ DOMAIN resp'.uids = ids
             /\ Cardinality({resp'.uids[b] : b \in ids}) = Len(rows)
             /\ {resp'.uids[b] : b \in ids} = {n.uid : n \in new}
             /\ \A n \in nodes : n.uid \notin {m.uid : m \in new}
             /\ \A i \in 1..Len(rows) :
                   \E n \in new : /\ n.uid = resp'.uids[<<BlankPrefix(file), i>>]
                                  /\ n.type = TypeOf(file)
                                  /\ n.name = rows[i].name
                                  /\ n.duration = rows[i].duration]_vars

C15_Witness ==
    /\ pc = "load"
    /\ load_steps[step] = "videos"
    /\ resp.kind = "uids"
    /\ resp.file = "users"
    /\ Cardinality(DOMAIN resp.uids) = 2

\* C16 as stated: a row that is written sets the loader's predicate on the
\* node its source lookup resolved (first column of the row), with the node
\* its target lookup resolved (second column) as the value; for a row of
\* comment_replies_comment, on the comment found for comment_text, pointing
\* to the comment found for replied_to_text.  No other edge is added.
C16_EdgeFromSource ==
    [][(RowDone /\ lastRow'.outcome = "linked") =>
          LET L == Loader(lastRow'.file)
              s == first_uid_from_query(Find(L.srcFunc, L.srcAttr, lastRow'.key.src))
              d == first_uid_from_query(Find(L.dstFunc, L.dstAttr, lastRow'.key.dst))
          IN /\ E(L.pred, s, d) \in edges'
             /\ (edges' \ edges) \subseteq {E(L.pred, s, d)}
             /\ nodes' = nodes]_vars

\* The lookup mode C17 gives an endpoint: full-text "any term" for a comment
\* text, exact match for a username or a title.
ModeOf(attr) == IF attr = "text" THEN "anyoftext" ELSE "eq"

Min(S) == CHOOSE x \in S : \A y \in S : x <= y

\* C17 as stated: in every relationship loader each endpoint lookup that
\* returned has returned the nodes its mode matches (exact match for a
\* username or a title, any-term match for a comment text), and a row that is
\* written links the first result of the one lookup with the first result of
\* the other.
C17_UniformLookupMode ==
    lastRow # NoRow =>
        LET L == Loader(lastRow.file)
            S == Matching(ModeOf(L.srcAttr), L.srcAttr, lastRow.key.src)
            D == Matching(ModeOf(L.dstAttr), L.dstAttr, lastRow.key.dst)
        IN /\ lastRow.srcN >= 0 => lastRow.srcN = Cardinality(S)
           /\ lastRow.dstN >= 0 => lastRow.dstN = Cardinality(D)
           /\ lastRow.outcome = "linked" =>
                 \E e \in edges : /\ e.pred = L.pred
                                  /\ {e.from, e.to} = {Min(S), Min(D)}

\* The mode each loader's query text asks for: as C17 says, but for
\* load_comment_replies_comment, which resolves both comment texts by exact
\* match.
ModeIn(file, attr) ==
    IF file = "comment_replies_comment" THEN "eq" ELSE ModeOf(attr)

\* C17 as amended: each endpoint lookup that returned has returned the nodes
\* matched in its loader's mode (exact match for a username or a title, and
\* for both comment texts of load_comment_replies_comment; any-term match for
\* the comment text of the other loaders), and a row that is written links
\* the first result of the one lookup with the first result of the other.
C17_LookupModePerLoader ==
    lastRow # NoRow =>
        LET L == Loader(lastRow.file)
            S == Matching(ModeIn(lastRow.file, L.srcAttr), L.srcAttr, lastRow.key.src)
            D == Matching(ModeIn(lastRow.file, L.dstAttr), L.dstAttr, lastRow.key.dst)
        IN /\ lastRow.srcN >= 0 => lastRow.srcN = Cardinality(S)
           /\ lastRow.dstN >= 0 => lastRow.dstN = Cardinality(D)
           /\ lastRow.outcome = "linked" =>
                 \E e \in edges : /\ e.pred = L.pred
                                  /\ {e.from, e.to} = {Min(S), Min(D)}

C17_Witness ==
    /\ lastRow # NoRow
    /\ lastRow.file = "comment_replies_comment"
    /\ lastRow.outcome = "linked"
    /\ lastRow.srcN = 1
    /\ Cardinality(Matching("anyoftext", "text", lastRow.key.src)) = 2
    /\ \E e \in edges : e.pred = "replies_to_c_c" /\ e.from # e.to

\* C18 as stated: in every relationship loader a row whose source lookup
\* found nothing has issued that one lookup only, and a row with both
\* endpoints resolved has issued lookup, lookup, write in that order.
C18_SourceCheckedFirst ==
    lastRow # NoRow =>
        /\ lastRow.srcN = 0 => lastRow.trips = <<"lookup">>
        /\ (lastRow.srcN > 0 /\ lastRow.dstN > 0) =>
              lastRow.trips = <<"lookup", "lookup", "write">>

\* The loaders that send both lookups before they look at either result.
BothLookupsFirst == {"user_posts_video", "user_saves_video"}

\* C18 as amended: a row with both endpoints resolved has issued lookup,
\* lookup, write in that order, and a row without a write has issued lookups
\* only; a row whose source lookup found nothing has issued that one lookup
\* only in seven loaders, but both lookups in load_user_posts_video and
\* load_user_saves_video; it never issues a write.
C18_RoundTripsPerLoader ==
    lastRow # NoRow =>
        /\ lastRow.srcN = 0 =>
              lastRow.trips = (IF lastRow.file \in BothLookupsFirst
                               THEN <<"lookup", "lookup">> ELSE <<"lookup">>)
        /\ (lastRow.srcN > 0 /\ lastRow.dstN > 0) =>
              lastRow.trips = <<"lookup", "lookup", "write">>
        /\ (lastRow.srcN > 0 /\ lastRow.dstN = 0) =>
              lastRow.trips = <<"lookup", "lookup">>
        /\ lastRow.outcome = "linked" => (lastRow.srcN > 0 /\ lastRow.dstN > 0)

C18_Witness ==
    /\ lastRow # NoRow
    /\ lastRow.file = "user_saves_video"
    /\ lastRow.srcN = 0
    /\ lastRow.outcome = "skipped"
    /\ lastRow.trips = <<"lookup", "lookup">>
    /\ pc = "load"

\* The nodes of the graph G that hold the values of row r of node file f.
Holding(G, f, r) ==
    {n \in G : n.type = TypeOf(f) /\ n.name = r.name /\ n.duration = r.duration}

\* The rows of node file f, as a set.
RowsOf(f) == Range(NodeRows(data, f))

\* C19 as stated: between two operations of the session the graph holds, for
\* each row of each node file, as many nodes as loads of that file have
\* committed since the last drop-all.
C19_KNodesPerRow ==
    pc \in {"menu", "pause"} =>
        \A f \in Range(NodeFiles) : \A r \in RowsOf(f) :
            Cardinality(Holding(nodes, f, r)) = copies[f]

\* C19 as amended: a node load that commits adds one new node for every row
\* of its file whether or not nodes with the same values exist already, and
\* no step of a load removes a node; so for each row of playlists, users and
\* videos the graph holds as many nodes as loads of the file have committed
\* since the last drop-all, and for each row of comments as many, less those
\* that delete_comment removed.
C19_LoadsAddCopies ==
    /\ [](\A f \in Range(NodeFiles) : \A r \in RowsOf(f) :
            IF f = "comments"
            THEN Cardinality(Holding(nodes, f, r)) <= copies[f]
            ELSE Cardinality(Holding(nodes, f, r)) = copies[f])
    /\ [][pc = "load" =>
            /\ nodes \subseteq nodes'
            /\ \A f \in Range(NodeFiles) : \A r \in RowsOf(f) :
                  Cardinality(Holding(nodes', f, r)) =
                      Cardinality(Holding(nodes, f, r))
                          + (IF finished' # finished /\ load_steps[step] = f
                             THEN 1 ELSE 0)]_vars

C19_Witness ==
    /\ pc = "pause"
    /\ op = "create_data"
    /\ report.kind = "none"
    /\ copies = [f \in Range(NodeFiles) |-> 2]
    /\ \A f \in Range(NodeFiles) : \A r \in RowsOf(f) :
          Cardinality(Holding(nodes, f, r)) = 2

====
